---- MODULE Spec2Model ----
(***************************************************************************)
(* State-machine model of bot.py: the shelving calculator's per-user       *)
(* session (sections, editing pointer, manual flag, target count) kept in  *)
(* data.json, the conversation state of the ConversationHandler, and one   *)
(* action per update handler.                                              *)
(*                                                                         *)
(* Texts are sequences of characters.  A character is a one-element string *)
(* for ASCII and a name for the Cyrillic letters the code compares with:   *)
(* "cyr_d" "cyr_a" is the word for yes ("da"), "cyr_n" "cyr_e" "cyr_t" the *)
(* word for no ("net"); "CYR_D" "CYR_A" are the capitals.                  *)
(***************************************************************************)
EXTENDS Integers, Sequences, FiniteSets, TLC

VARIABLES
    file,      \* data.json: NoFile, or a mapping uid -> session
    conv,      \* ConversationHandler state of the user's chat
    shown,     \* the most sections the user has had: open:i, edit:i and del:i
               \* buttons may be on the screen for every i < shown
    run,       \* history: the wizard run in progress and its submissions, or
               \* how the last run ended
    orphan,    \* history: the record under edit was deleted
    out,       \* history: what the last handler did (the branch it took, the
               \* message it sent, data.json and the conversation state it
               \* started from), where the specification records it
    queue,     \* the updates received and not yet dispatched
    tasks,     \* the handler coroutines in flight
    sent,      \* the number of updates received
    serial     \* history: data.json had every update been handled alone, in
               \* the order of the saves

\* The variables of the event loop.
loop == <<queue, tasks, sent, serial>>

vars == <<file, conv, shown, run, orphan, out, queue, tasks, sent, serial>>

(***************************************************************************)
(* Bounds of the model.                                                    *)
(***************************************************************************)
MaxSections == 2
MaxUpdates == 3

(***************************************************************************)
(* Program constants.                                                      *)
(***************************************************************************)
FIELDS ==
    << "height_mm", "width_mm", "depth_mm", "load_per_shelf_kg",
       "max_total_load_kg", "levels_count", "extra_section" >>

FieldKeys == { FIELDS[i] : i \in 1..Len(FIELDS) }

IntKeys == FieldKeys \ {"extra_section"}

ASK_VALUE == "ASK_VALUE"
END == "END"

NULL == [null |-> TRUE]

UID == "A"

\* Another user of the bot, with an entry of their own in data.json.
OTHER_UID == "B"

(***************************************************************************)
(* Texts: str(), str.strip(), str.lower(), int().                          *)
(***************************************************************************)
Digits == << "0", "1", "2", "3", "4", "5", "6", "7", "8", "9" >>

IsDigit(c) == \E i \in 1..Len(Digits) : Digits[i] = c

DigitVal(c) == (CHOOSE i \in 1..Len(Digits) : Digits[i] = c) - 1

RECURSIVE Str(_)
Str(n) ==
    IF n < 0 THEN <<"-">> \o Str(0 - n)
    ELSE IF n < 10 THEN << Digits[n + 1] >>
    ELSE Str(n \div 10) \o << Digits[(n % 10) + 1] >>

IsSpace(c) == c \in {" ", "\t", "\n"}

RECURSIVE LStrip(_)
LStrip(t) == IF t # <<>> /\ IsSpace(Head(t)) THEN LStrip(Tail(t)) ELSE t

RECURSIVE RStrip(_)
RStrip(t) ==
    IF t # <<>> /\ IsSpace(t[Len(t)]) THEN RStrip(SubSeq(t, 1, Len(t) - 1)) ELSE t

Strip(t) == RStrip(LStrip(t))

LowerChar(c) ==
    CASE c = "CYR_D" -> "cyr_d"
      [] c = "CYR_A" -> "cyr_a"
      [] c = "CYR_N" -> "cyr_n"
      [] c = "CYR_E" -> "cyr_e"
      [] c = "CYR_T" -> "cyr_t"
      [] c = "Y" -> "y"
      [] c = "E" -> "e"
      [] c = "S" -> "s"
      [] c = "N" -> "n"
      [] c = "O" -> "o"
      [] OTHER -> c

Lower(t) == [i \in 1..Len(t) |-> LowerChar(t[i])]

RECURSIVE DigitsValue(_)
DigitsValue(t) ==
    IF t = <<>> THEN 0
    ELSE 10 * DigitsValue(SubSeq(t, 1, Len(t) - 1)) + DigitVal(t[Len(t)])

\* int(text): ok = FALSE stands for ValueError.
ParseInt(t) ==
    LET s == Strip(t)
        signed == s # <<>> /\ Head(s) \in {"-", "+"}
        body == IF signed THEN Tail(s) ELSE s
        neg == signed /\ Head(s) = "-"
    IN  IF body # <<>> /\ \A i \in 1..Len(body) : IsDigit(body[i])
        THEN [ok |-> TRUE,
              val |-> IF neg THEN 0 - DigitsValue(body) ELSE DigitsValue(body)]
        ELSE [ok |-> FALSE, val |-> 0]

YesWords ==
    { <<"cyr_d", "cyr_a">>, <<"cyr_d">>, <<"y", "e", "s">>, <<"y">>, <<"1">>,
      <<"t", "r", "u", "e">> }

NoWords ==
    { <<"cyr_n", "cyr_e", "cyr_t">>, <<"cyr_n">>, <<"n", "o">>, <<"n">>, <<"0">>,
      <<"f", "a", "l", "s", "e">> }

\* parse_bool_ru(text): ok = FALSE stands for None.
parse_bool_ru(text) ==
    LET t == Lower(Strip(text))
    IN  IF t \in YesWords THEN [ok |-> TRUE, val |-> TRUE]
        ELSE IF t \in NoWords THEN [ok |-> TRUE, val |-> FALSE]
        ELSE [ok |-> FALSE, val |-> FALSE]

(***************************************************************************)
(* Data model.                                                             *)
(***************************************************************************)
\* asdict(Section()): the all-default record.
Section == [k \in FieldKeys |-> IF k = "extra_section" THEN FALSE ELSE 0]

\* The preset values of the buttons; the yes/no presets are texts.
OPTIONS ==
    [ height_mm |-> <<1600, 1850, 2200, 2350, 2500, 2550, 2750, 3000, 3100>>,
      width_mm |-> <<700, 1000, 1200, 1500>>,
      depth_mm |-> <<300, 400, 500, 600, 700, 800>>,
      load_per_shelf_kg |-> <<100, 150, 200>>,
      max_total_load_kg |-> <<500, 750, 1000>>,
      levels_count |-> <<2, 3, 4, 5, 6, 7, 8, 9>>,
      extra_section |-> << <<"cyr_d", "cyr_a">>, <<"cyr_n", "cyr_e", "cyr_t">> >> ]

\* The value part of the callback data of option i of input_kb(key): str(v).
ButtonValue(key, i) ==
    IF key = "extra_section" THEN OPTIONS[key][i] ELSE Str(OPTIONS[key][i])

NoFile == [exists |-> FALSE, data |-> <<>>]

\* load_db(): a missing file is the empty mapping.
load_db(f) == IF ~f.exists THEN <<>> ELSE f.data

save_db_of_user(db) ==
    [exists |-> TRUE, data |-> [x \in {UID} |-> db[x]]]

\* save_db(db): the whole mapping is rewritten.
save_db(db) == [exists |-> TRUE, data |-> db]

DefaultState ==
    [sections |-> <<>>, editing |-> NULL, manual |-> FALSE, target_count |-> 0]

SetDefault(s, k, v) ==
    IF k \in DOMAIN s THEN s
    ELSE [x \in DOMAIN s \cup {k} |-> IF x = k THEN v ELSE s[x]]

\* get_user_state(db, user_id): the mapping after the call, which creates the
\* user's entry and adds the keys old data lacks; the state is its entry uid.
get_user_state(db, uid) ==
    LET d1 == IF uid \in DOMAIN db THEN db
              ELSE [x \in DOMAIN db \cup {uid} |->
                        IF x = uid THEN DefaultState ELSE db[x]]
    IN  [d1 EXCEPT ![uid] =
            SetDefault(SetDefault(@, "manual", FALSE), "target_count", 0)]

NoStep == [none |-> TRUE]

\* current_step(db, user_id): NoStep for None.
current_step(db, uid) ==
    LET st == get_user_state(db, uid)[uid]
        editing == st.editing
    IN  IF editing = NULL THEN NoStep
        ELSE IF editing.idx >= Len(st.sections) \/ editing.field_i < 0
                \/ editing.field_i >= Len(FIELDS)
        THEN NoStep
        ELSE [idx |-> editing.idx, field_i |-> editing.field_i,
              key |-> FIELDS[editing.field_i + 1]]

total_sections(st) == Len(st.sections)

Max(a, b) == IF a >= b THEN a ELSE b

RECURSIVE calc_price_without_floor(_)
calc_price_without_floor(sections) ==
    IF sections = <<>> THEN 0
    ELSE LET s == Head(sections)
         IN  s.width_mm * s.depth_mm * s.levels_count
                 + calc_price_without_floor(Tail(sections))

RECURSIVE calc_price_per_level(_)
calc_price_per_level(sections) ==
    IF sections = <<>> THEN 0
    ELSE LET s == Head(sections)
         IN  (s.width_mm * s.depth_mm) \div Max(s.levels_count, 1)
                 + calc_price_per_level(Tail(sections))

\* calc_price(sections) times 1000, in exact arithmetic:
\* sum of width_mm * depth_mm * max(levels_count, 0).
RECURSIVE calc_price_x1000(_)
calc_price_x1000(sections) ==
    IF sections = <<>> THEN 0
    ELSE LET s == Head(sections)
         IN  s.width_mm * s.depth_mm * Max(s.levels_count, 0)
                 + calc_price_x1000(Tail(sections))

(***************************************************************************)
(* Outbound messages: the text and the keyboard.                           *)
(***************************************************************************)
main_menu == [kb |-> "main_menu", arg |-> ""]
finish_kb == [kb |-> "finish_kb", arg |-> ""]
manual_only_kb == [kb |-> "manual_only_kb", arg |-> ""]
count_kb == [kb |-> "count_kb", arg |-> ""]
input_kb(field_key) == [kb |-> "input_kb", arg |-> field_key]
list_kb(sections_count) == [kb |-> "list_kb", arg |-> Str(sections_count)]
section_actions_kb(idx) == [kb |-> "section_actions_kb", arg |-> Str(idx)]

Plain(msg) ==
    [msg |-> msg, title |-> "", idx |-> 0, key |-> "", of |-> 0, price |-> 0]

\* ask_text(idx, field_label, action_title, total); the label is named by its key.
ask_text(idx, key, action_title, total) ==
    [Plain("ask") EXCEPT !.title = action_title, !.idx = idx, !.key = key,
                         !.of = total]

Message(text, kb) == [text |-> text, kb |-> kb]

\* An exception: nothing is sent, and the update is dropped.
Raised(name) == Message(Plain(name), [kb |-> "none", arg |-> ""])

(***************************************************************************)
(* The handlers, as functions of data.json (f), the conversation state (c) *)
(* and the update: what the handler leaves in data.json, the conversation  *)
(* state it returns, the message it sends, and the branch it took (with    *)
(* the section index the branch acted on).                                 *)
(***************************************************************************)
Result(f, c, reply, branch, idx) ==
    [file |-> f, conv |-> c, reply |-> reply, branch |-> branch, idx |-> idx]

(***************************************************************************)
(* Commands.  They are handled outside the ConversationHandler, so the     *)
(* conversation state stays.                                               *)
(***************************************************************************)
start(f, c, uid) == Result(f, c, Message(Plain("start"), main_menu), "start", 0)

menu_cmd(f, c, uid) ==
    LET db == get_user_state(load_db(f), uid)
        st == [db[uid] EXCEPT !.editing = NULL, !.manual = FALSE]
    IN  Result(save_db([db EXCEPT ![uid] = st]), c,
               Message(Plain("choose"), main_menu), "menu", 0)

reset_state_keeping_count(st) ==
    [st EXCEPT !.sections = <<>>, !.editing = NULL, !.manual = FALSE]

\* The session after a reset.
reset_state(st) ==
    [st EXCEPT !.sections = <<>>, !.editing = NULL, !.manual = FALSE,
               !.target_count = 0]

reset_cmd(f, c, uid) ==
    LET db == get_user_state(load_db(f), uid)
        st == reset_state(db[uid])
    IN  Result(save_db([db EXCEPT ![uid] = st]), c,
               Message(Plain("reset_done"), main_menu), "reset", 0)

(***************************************************************************)
(* on_menu_click: one definition per branch, in the order of the code.     *)
(* db is the mapping after load_db and get_user_state.                     *)
(***************************************************************************)
click_menu(f, c, uid, db) ==
    LET st == [db[uid] EXCEPT !.editing = NULL, !.manual = FALSE]
    IN  Result(save_db([db EXCEPT ![uid] = st]), END,
               Message(Plain("choose"), main_menu), "menu", 0)

click_reset(f, c, uid, db) ==
    LET st == reset_state(db[uid])
    IN  Result(save_db([db EXCEPT ![uid] = st]), END,
               Message(Plain("reset_done"), main_menu), "reset", 0)

cancelled_keeps_manual(st) == [st EXCEPT !.editing = NULL]

\* The session after cancel_edit.
cancelled(st) == [st EXCEPT !.editing = NULL, !.manual = FALSE]

click_cancel(f, c, uid, db) ==
    LET st == cancelled(db[uid])
    IN  Result(save_db([db EXCEPT ![uid] = st]), END,
               Message(Plain("cancelled"), main_menu), "cancel", 0)

click_set_count(f, c, uid, db) ==
    Result(f, END, Message(Plain("how_many"), count_kb), "set_count", 0)

click_add(f, c, uid, db) ==
    LET idx == Len(db[uid].sections)
        st == [db[uid] EXCEPT !.sections = Append(@, Section),
                              !.editing = [idx |-> idx, field_i |-> 0],
                              !.manual = FALSE, !.target_count = 0]
    IN  Result(save_db([db EXCEPT ![uid] = st]), ASK_VALUE,
               Message(ask_text(idx, FIELDS[1], "add", total_sections(st)),
                       input_kb(FIELDS[1])),
               "add", idx)

click_list(f, c, uid, db) ==
    LET cnt == Len(db[uid].sections)
    IN  Result(f, END,
               IF cnt = 0 THEN Message(Plain("no_sections_yet"), main_menu)
               ELSE Message(Plain("sections"), list_kb(cnt)),
               "list", 0)

click_open(f, c, uid, db, idx) ==
    IF idx >= Len(db[uid].sections)
    THEN Result(f, c, Raised("IndexError"), "raised", idx)
    ELSE Result(f, END,
                Message([Plain("section") EXCEPT !.idx = idx],
                        section_actions_kb(idx)),
                "open", idx)

click_del(f, c, uid, db, idx) ==
    LET hit == 0 <= idx /\ idx < Len(db[uid].sections)
        st == [db[uid] EXCEPT !.sections =
                  [i \in 1..(Len(@) - 1) |-> IF i <= idx THEN @[i] ELSE @[i + 1]]]
    IN  Result(IF hit THEN save_db([db EXCEPT ![uid] = st]) ELSE f, END,
               Message(Plain("deleted"), main_menu),
               IF hit THEN "deleted" ELSE "not_deleted", idx)

click_edit(f, c, uid, db, idx) ==
    LET st == [db[uid] EXCEPT !.editing = [idx |-> idx, field_i |-> 0],
                              !.manual = FALSE, !.target_count = 0]
    IN  Result(save_db([db EXCEPT ![uid] = st]), ASK_VALUE,
               Message(ask_text(idx, FIELDS[1], "edit", total_sections(st)),
                       input_kb(FIELDS[1])),
               "edit", idx)

click_apply_prices_nothing(f, c, uid, db) ==
    LET sections == db[uid].sections
    IN  Result(f, END,
               Message([Plain("total") EXCEPT
                            !.of = Len(sections),
                            !.price = calc_price_x1000(sections)],
                       finish_kb),
               "apply", 0)

click_apply_ending_the_edit(f, c, uid, db) ==
    LET sections == db[uid].sections
    IN  Result(save_db([db EXCEPT ![uid] = cancelled(@)]), END,
               IF sections = <<>>
               THEN Message(Plain("no_sections"), main_menu)
               ELSE Message([Plain("total") EXCEPT
                                 !.of = Len(sections),
                                 !.price = calc_price_x1000(sections)],
                            finish_kb),
               "apply", 0)

click_apply(f, c, uid, db) ==
    LET sections == db[uid].sections
    IN  Result(f, END,
               IF sections = <<>>
               THEN Message(Plain("no_sections"), main_menu)
               ELSE Message([Plain("total") EXCEPT
                                 !.of = Len(sections),
                                 !.price = calc_price_x1000(sections)],
                            finish_kb),
               "apply", 0)

click_unknown(f, c, uid, db) ==
    Result(f, END, Message(Plain("unknown_command"), main_menu), "unknown", 0)

\* The callback data is [cmd, arg]: "edit:1" is cmd "edit", arg the text "1".
on_menu_click(f, c, uid, data) ==
    LET db == get_user_state(load_db(f), uid)
        idx == ParseInt(data.arg).val
    IN  CASE data.cmd = "menu" -> click_menu(f, c, uid, db)
          [] data.cmd = "reset_all" -> click_reset(f, c, uid, db)
          [] data.cmd = "cancel_edit" -> click_cancel(f, c, uid, db)
          [] data.cmd = "set_count" -> click_set_count(f, c, uid, db)
          [] data.cmd = "add" -> click_add(f, c, uid, db)
          [] data.cmd = "list" -> click_list(f, c, uid, db)
          [] data.cmd = "open" -> click_open(f, c, uid, db, idx)
          [] data.cmd = "del" -> click_del(f, c, uid, db, idx)
          [] data.cmd = "edit" -> click_edit(f, c, uid, db, idx)
          [] data.cmd = "apply" -> click_apply(f, c, uid, db)
          [] OTHER -> click_unknown(f, c, uid, db)

(***************************************************************************)
(* The wizard.                                                             *)
(***************************************************************************)
on_count_pick(f, c, uid, n) ==
    LET db == get_user_state(load_db(f), uid)
        st == [db[uid] EXCEPT !.sections = [i \in 1..n |-> Section],
                              !.target_count = n,
                              !.editing = [idx |-> 0, field_i |-> 0],
                              !.manual = FALSE]
    IN  Result(save_db([db EXCEPT ![uid] = st]), ASK_VALUE,
               Message(ask_text(0, FIELDS[1], "fill", total_sections(st)),
                       input_kb(FIELDS[1])),
               "count", 0)

has_next_or_end(st, next_idx) == next_idx <= Len(st.sections)

has_next_never(st, next_idx) == FALSE

\* Whether a section follows the one just completed.
has_next(st, next_idx) == next_idx < Len(st.sections)

write_value_in_all(st, idx, key, val) ==
    [st EXCEPT !.sections = [r \in 1..Len(@) |-> [@[r] EXCEPT ![key] = val]],
               !.manual = FALSE]

write_value_keeping_mode(st, idx, key, val) ==
    [st EXCEPT !.sections[idx + 1][key] = val]

\* The parsed value is stored in the field of the section being edited.
write_value(st, idx, key, val) ==
    [st EXCEPT !.sections[idx + 1][key] = val, !.manual = FALSE]

\* The tail of on_pick and of on_value after the value is written: the next
\* field, the next section, or the end.  st holds the written value; title is
\* the action title of the next field's prompt.  The result is the state to
\* save, the message and the conversation state.
next_step(st, idx, field_i, title) ==
    LET fi == field_i + 1
        next_idx == idx + 1
    IN  IF fi >= Len(FIELDS)
        THEN IF has_next(st, next_idx)
             THEN [st |-> [st EXCEPT !.editing = [idx |-> next_idx, field_i |-> 0],
                                     !.manual = FALSE],
                   reply |-> Message([ask_text(next_idx, FIELDS[1], "fill",
                                               total_sections(st))
                                          EXCEPT !.msg = "section_done_ask"],
                                     input_kb(FIELDS[1])),
                   conv |-> ASK_VALUE]
             ELSE [st |-> [st EXCEPT !.editing = NULL, !.manual = FALSE],
                   reply |-> Message([Plain("all_done") EXCEPT
                                          !.of = Len(st.sections)], main_menu),
                   conv |-> END]
        ELSE [st |-> [st EXCEPT !.editing.field_i = fi],
              reply |-> Message(ask_text(idx, FIELDS[fi + 1], title,
                                         total_sections(st)),
                                input_kb(FIELDS[fi + 1])),
              conv |-> ASK_VALUE]

wrong_field_never(field_key, key) == FALSE

\* The button pressed is not one of the field being asked.
wrong_field(field_key, key) == field_key # key

\* The callback data is [field, value]: pick:{field}:{value}.
on_pick(f, c, uid, data) ==
    LET db == get_user_state(load_db(f), uid)
        st == db[uid]
        step == current_step(db, uid)
    IN  IF step = NoStep
        THEN Result(f, END, Message(Plain("choose"), main_menu), "no_step", 0)
        ELSE
        LET idx == step.idx
            key == step.key
            total == total_sections(st)
            parsed == IF key = "extra_section" THEN parse_bool_ru(data.value)
                      ELSE ParseInt(data.value)
            written == write_value(st, idx, key, parsed.val)
            nxt == next_step(written, idx, step.field_i, "continue")
        IN  IF wrong_field(data.field, key)
            THEN Result(f, ASK_VALUE,
                        Message(ask_text(idx, key, "continue", total), input_kb(key)),
                        "mismatch", idx)
            ELSE IF ~parsed.ok
            THEN Result(f, ASK_VALUE,
                        Message(Plain(IF key = "extra_section" THEN "pick_yes_or_no"
                                      ELSE "bad_value"), input_kb(key)),
                        "invalid", idx)
            ELSE Result(save_db([db EXCEPT ![uid] = nxt.st]), nxt.conv, nxt.reply,
                        "written", idx)

manual_on_from_first_field(st) ==
    [st EXCEPT !.manual = TRUE, !.editing.field_i = 0]

\* The session once manual input is accepted.
manual_on(st) == [st EXCEPT !.manual = TRUE]

\* The callback data is the field key: manual:{field}.
on_manual(f, c, uid, field_key) ==
    LET db == get_user_state(load_db(f), uid)
        st == db[uid]
        step == current_step(db, uid)
    IN  IF step = NoStep
        THEN Result(f, END, Message(Plain("choose"), main_menu), "no_step", 0)
        ELSE IF field_key # step.key
        THEN Result(f, ASK_VALUE,
                    Message(ask_text(step.idx, step.key, "continue",
                                     total_sections(st)), input_kb(step.key)),
                    "mismatch", step.idx)
        ELSE Result(save_db([db EXCEPT ![uid] = manual_on(st)]),
                    ASK_VALUE,
                    Message([Plain("enter_manually") EXCEPT !.key = step.key],
                            manual_only_kb),
                    "manual", step.idx)

back_index_by_two(field_i) == IF field_i > 1 THEN field_i - 2 ELSE 0

\* The field index one step back.
back_index(field_i) == IF field_i > 0 THEN field_i - 1 ELSE 0

on_back_field(f, c, uid) ==
    LET db == get_user_state(load_db(f), uid)
        st == db[uid]
        editing == st.editing
    IN  IF editing = NULL
        THEN Result(f, END, Message(Plain("choose"), main_menu), "no_step", 0)
        ELSE
        LET field_i == back_index(editing.field_i)
        IN  Result(save_db([db EXCEPT ![uid] =
                       [st EXCEPT !.editing.field_i = field_i, !.manual = FALSE]]),
                   ASK_VALUE,
                   Message(ask_text(editing.idx, FIELDS[field_i + 1], "back",
                                    total_sections(st)),
                           input_kb(FIELDS[field_i + 1])),
                   "back", editing.idx)

expects_text_always(st) == TRUE

\* Whether manual input has been switched on: st.get("manual", False).
expects_text(st) == st.manual

\* A text message (the handler is registered in state ASK_VALUE only).
on_value(f, c, uid, text) ==
    LET db == get_user_state(load_db(f), uid)
        st == db[uid]
        step == current_step(db, uid)
    IN  IF st.editing = NULL \/ step = NoStep
        THEN Result(f, END, Message(Plain("choose"), main_menu), "no_step", 0)
        ELSE
        LET idx == step.idx
            key == step.key
            raw == Strip(text)
            int == ParseInt(raw)
            parsed == IF key = "extra_section" THEN parse_bool_ru(raw)
                      ELSE [ok |-> int.ok /\ int.val >= 0, val |-> int.val]
            written == write_value(st, idx, key, parsed.val)
            nxt == next_step(written, idx, step.field_i, "now")
        IN  IF ~expects_text(st)
            THEN Result(f, ASK_VALUE,
                        Message([Plain("use_buttons") EXCEPT !.key = key],
                                input_kb(key)),
                        "not_manual", idx)
            ELSE IF ~parsed.ok
            THEN Result(f, ASK_VALUE,
                        Message(Plain(IF key = "extra_section" THEN "enter_yes_or_no"
                                      ELSE "need_integer"), manual_only_kb),
                        "invalid", idx)
            ELSE Result(save_db([db EXCEPT ![uid] = nxt.st]), nxt.conv, nxt.reply,
                        "written", idx)

(***************************************************************************)
(* The user's inputs.                                                      *)
(***************************************************************************)
\* The user's session as a handler sees it after load_db and get_user_state.
SessionOf(f) == get_user_state(load_db(f), UID)[UID]

Session == SessionOf(file)

Sections == Session.sections
Editing == Session.editing
Manual == Session.manual
TargetCount == Session.target_count

\* The callback data pick:{field}:{value}.
PickToken(key, value) == [field |-> key, value |-> value]

\* The preset buttons the user presses, by position in OPTIONS[key].
Pressed ==
    [ height_mm |-> {1}, width_mm |-> {2}, depth_mm |-> {2},
      load_per_shelf_kg |-> {1}, max_total_load_kg |-> {1},
      levels_count |-> {4}, extra_section |-> {1, 2} ]

Negative == <<"-", "5">>
NonNumeric == <<"a", "b", "c">>
Maybe == <<"m", "a", "y", "b", "e">>

\* Callback data need not come from a button of the message: the values a
\* pick token may carry besides the presets.
NegPickKeys == {"levels_count"}

OddPickValues(key) ==
    IF key = "extra_section" THEN {Maybe, Negative}
    ELSE {NonNumeric} \cup (IF key \in NegPickKeys THEN {Negative} ELSE {})

\* The pick tokens the user sends: the pressed preset of any field (a button
\* of an earlier prompt stays on the screen), and the other values for the
\* field being asked.
PickInputs ==
    LET step == current_step(load_db(file), UID)
    IN  UNION { { [field |-> k, value |-> ButtonValue(k, i)] : i \in Pressed[k] } :
                  k \in FieldKeys }
        \cup (IF step = NoStep THEN {}
              ELSE { [field |-> step.key, value |-> v] :
                       v \in OddPickValues(step.key) })

\* The manual tokens the user sends: the button of the field being asked and
\* the buttons left from the prompts of the first and the last field.
ManualInputs ==
    LET step == current_step(load_db(file), UID)
    IN  {FIELDS[1], FIELDS[Len(FIELDS)]}
            \cup (IF step = NoStep THEN {} ELSE {step.key})

\* The texts the user types for the field being asked.
TypedFor(key) ==
    { ButtonValue(key, i) : i \in Pressed[key] }
        \cup (IF key = "extra_section"
              THEN { <<" ", "CYR_D", "CYR_A">>, <<"Y">>, Maybe, Negative }
              ELSE { <<" ">> \o ButtonValue(key, CHOOSE i \in Pressed[key] : TRUE)
                         \o <<" ">>,
                     Negative, NonNumeric, Maybe })

Typed ==
    LET step == current_step(load_db(file), UID)
    IN  IF step = NoStep THEN {<<"5">>} ELSE TypedFor(step.key)

Simple(cmd) == [cmd |-> cmd, arg |-> <<>>]

\* The buttons on the screen: the main menu and the wizard's keyboards, and
\* the open, edit and delete buttons of every section the user has had (the
\* list and the section could be opened, in another message, while the
\* section existed); "noop" stands for any other callback data.
MenuData ==
    { Simple(c) : c \in {"menu", "reset_all", "cancel_edit", "set_count", "list",
                         "apply", "noop"} }
        \cup (IF Len(Session.sections) < MaxSections THEN {Simple("add")} ELSE {})
        \cup { [cmd |-> c, arg |-> Str(i)] :
                 c \in {"open", "del", "edit"}, i \in 0..(shown - 1) }

(***************************************************************************)
(* History variables of the claims.                                        *)
(***************************************************************************)
NoRun == [mode |-> "none", nsub |-> 0]

\* How a run ends: the branch that ended it.
Ended(branch) == [mode |-> branch, nsub |-> 0]

\* One more successful submission in the run in progress.
Submitted(r) ==
    IF r.mode \in {"add", "edit", "count"} THEN [r EXCEPT !.nsub = @ + 1] ELSE r

\* The wizard run after a handler: started by add or edit from an idle
\* session and by a count, counted up by a written value, ended by menu,
\* reset, cancel, delete and back.
RunAfter(res) ==
    LET pre == Session
    IN  CASE res.branch \in {"menu", "reset", "deleted"} -> NoRun
          [] res.branch \in {"cancel", "back"} -> Ended(res.branch)
          [] res.branch = "add" ->
                IF pre.editing = NULL THEN [mode |-> "add", nsub |-> 0] ELSE NoRun
          [] res.branch = "edit" ->
                IF pre.editing = NULL /\ res.idx < Len(pre.sections)
                THEN [mode |-> "edit", nsub |-> 0] ELSE NoRun
          [] res.branch = "count" -> [mode |-> "count", nsub |-> 0]
          [] res.branch = "written" -> Submitted(run)
          [] OTHER -> run

\* Whether the record under edit has been deleted and the pointer not been
\* set anew since.
OrphanAfter(res) ==
    LET pre == Session
        post == SessionOf(res.file)
    IN  IF res.branch = "deleted"
        THEN orphan \/ (pre.editing # NULL /\ pre.editing.idx = res.idx)
        ELSE IF res.branch \in {"menu", "reset", "cancel", "add", "edit", "count"}
        THEN FALSE
        ELSE IF res.branch = "written"
        THEN orphan /\ post.editing # NULL /\ post.editing.idx = pre.editing.idx
        ELSE orphan

(***************************************************************************)
(* The specification: one action per handler.                              *)
(***************************************************************************)
\* Outcomes are not recorded, or none has been recorded yet.
Untraced == [branch |-> "untraced"]
NoOut == [branch |-> "none"]

Outcome(res) ==
    [branch |-> res.branch, reply |-> res.reply, file |-> file, conv |-> conv]

OutAfter(res) == IF out = Untraced THEN Untraced ELSE Outcome(res)

Handle(res) ==
    /\ file' = res.file
    /\ conv' = res.conv
    /\ shown' = Max(shown, Len(SessionOf(res.file).sections))
    /\ run' = RunAfter(res)
    /\ orphan' = OrphanAfter(res)
    /\ out' = OutAfter(res)
    /\ UNCHANGED loop

\* No update is waiting or being handled.
LoopIdle == queue = <<>> /\ tasks = {} /\ sent = 0 /\ serial = NoFile

Start == Handle(start(file, conv, UID))

MenuCmd == Handle(menu_cmd(file, conv, UID))

ResetCmd == Handle(reset_cmd(file, conv, UID))

OnMenuClick == \E data \in MenuData : Handle(on_menu_click(file, conv, UID, data))

OnCountPick == \E n \in 1..MaxSections : Handle(on_count_pick(file, conv, UID, n))

OnPick == \E data \in PickInputs : Handle(on_pick(file, conv, UID, data))

OnManual == \E key \in ManualInputs : Handle(on_manual(file, conv, UID, key))

OnBackField == Handle(on_back_field(file, conv, UID))

OnValue ==
    /\ conv = ASK_VALUE
    /\ \E text \in Typed : Handle(on_value(file, conv, UID, text))

Init ==
    /\ file = NoFile
    /\ conv = END
    /\ shown = 0
    /\ run = NoRun
    /\ orphan = FALSE
    /\ out = Untraced
    /\ LoopIdle

Next ==
    \/ Start
    \/ MenuCmd
    \/ ResetCmd
    \/ OnMenuClick
    \/ OnCountPick
    \/ OnPick
    \/ OnManual
    \/ OnBackField
    \/ OnValue

Spec == Init /\ [][Next]_vars

(***************************************************************************)
(* One handler from any session: data.json holds a session of the user     *)
(* drawn from the sessions below and the entry of another user, one update *)
(* is handled, and its outcome is recorded.                                *)
(***************************************************************************)
\* A section as the wizard leaves it after the presets pressed and "yes".
Filled ==
    [ height_mm |-> OPTIONS.height_mm[1], width_mm |-> OPTIONS.width_mm[2],
      depth_mm |-> OPTIONS.depth_mm[2],
      load_per_shelf_kg |-> OPTIONS.load_per_shelf_kg[1],
      max_total_load_kg |-> OPTIONS.max_total_load_kg[1],
      levels_count |-> OPTIONS.levels_count[4], extra_section |-> TRUE ]

\* The sections of the sessions: all-default, partially filled, filled, typed
\* in by hand, and with the negative level count a pick token can store.
StepSections ==
    { Section,
      [Section EXCEPT !.height_mm = OPTIONS.height_mm[1]],
      Filled,
      [Filled EXCEPT !.height_mm = 2000, !.width_mm = 750, !.depth_mm = 350,
                     !.levels_count = 3, !.extra_section = FALSE],
      [Filled EXCEPT !.levels_count = 0 - 5] }

StepLists ==
    UNION { [1..n -> StepSections] : n \in 0..MaxSections }

\* The editing pointers: none, the first, a middle and the last field, of a
\* section that exists or one that was deleted.
StepPointers ==
    {NULL} \cup { [idx |-> i, field_i |-> j] :
                    i \in 0..(MaxSections - 1), j \in {0, 1, Len(FIELDS) - 1} }

\* The manual flag is set only while a field is being asked.
StepSessions ==
    { [sections |-> l, editing |-> e, manual |-> m, target_count |-> t] :
        l \in StepLists, e \in StepPointers, m \in BOOLEAN,
        t \in {0, MaxSections} }
        \ { st \in [sections : StepLists, editing : {NULL}, manual : {TRUE},
                     target_count : {0, MaxSections}] : TRUE }

\* The other user's session.
OtherSession ==
    [sections |-> <<Filled>>, editing |-> [idx |-> 0, field_i |-> 1],
     manual |-> TRUE, target_count |-> 0]

OtherOnly == [exists |-> TRUE, data |-> [x \in {OTHER_UID} |-> OtherSession]]

StepFiles ==
    {NoFile, OtherOnly}
        \cup { [exists |-> TRUE,
                data |-> [x \in {UID, OTHER_UID} |->
                             IF x = UID THEN st ELSE OtherSession]] :
                 st \in StepSessions }

StepInit ==
    /\ file \in StepFiles
    /\ conv \in {END, ASK_VALUE}
    /\ shown = MaxSections
    /\ run = NoRun
    /\ orphan = FALSE
    /\ out = NoOut
    /\ LoopIdle

\* No update has been handled yet.
Fresh == out = NoOut

StepNext ==
    \/ Fresh /\ Start
    \/ Fresh /\ MenuCmd
    \/ Fresh /\ ResetCmd
    \/ Fresh /\ OnMenuClick
    \/ Fresh /\ OnCountPick
    \/ Fresh /\ OnPick
    \/ Fresh /\ OnManual
    \/ Fresh /\ OnBackField
    \/ Fresh /\ OnValue

StepSpec == StepInit /\ [][StepNext]_vars

(***************************************************************************)
(* The event loop: updates wait in the Application's queue, a handler is a *)
(* coroutine that gives up the loop at its awaits (answering the callback  *)
(* query, sending the message) and runs from load_db to save_db without    *)
(* one.                                                                    *)
(***************************************************************************)
\* Whether the user may press add: the sections there are and the adds on
\* their way stay within the bound.
AddsPending ==
    Cardinality({ i \in 1..Len(queue) : queue[i].data = Simple("add") })
        + Cardinality({ t \in tasks : t.update.data = Simple("add")
                                         /\ t.pc \in {"answer", "load", "save"} })

\* The updates the user sends: the /menu command, buttons of the main menu
\* and of a section's card, and preset buttons of the first two fields.
LoopInputs ==
    { [via |-> "menu_cmd", data |-> <<>>] }
        \cup { [via |-> "on_menu_click", data |-> d] :
                 d \in { Simple("cancel_edit"), [cmd |-> "del", arg |-> Str(0)] }
                          \cup (IF Len(Sections) + AddsPending < MaxSections
                                THEN {Simple("add")} ELSE {}) }
        \cup { [via |-> "on_pick",
                data |-> PickToken(FIELDS[j], ButtonValue(FIELDS[j], i))] :
                 j \in {1, 2}, i \in {2} }

\* The handler the Application runs for the update.
Handler(u, f, c) ==
    CASE u.via = "menu_cmd" -> menu_cmd(f, c, UID)
      [] u.via = "on_menu_click" -> on_menu_click(f, c, UID, u.data)
      [] u.via = "on_pick" -> on_pick(f, c, UID, u.data)

\* The callback handlers begin with await q.answer().
Answers(u) == u.via # "menu_cmd"

Concurrent(ts) == TRUE

\* The Application is built without concurrent_updates: it awaits the
\* handler of an update before it takes the next update from the queue.
Sequential(ts) == ts = {}

\* A coroutine runs when no other coroutine is between two awaits, which
\* for a handler is from load_db to save_db.
Runnable(t) == \A u \in tasks \ {t} : u.pc # "save"

Receive ==
    /\ sent < MaxUpdates
    /\ \E u \in LoopInputs :
          queue' = Append(queue, [id |-> sent + 1, via |-> u.via, data |-> u.data])
    /\ sent' = sent + 1
    /\ UNCHANGED <<file, conv, shown, run, orphan, out, tasks, serial>>

Dispatch ==
    /\ queue # <<>>
    /\ Sequential(tasks)
    /\ tasks' = tasks \cup
          { [update |-> Head(queue),
             pc |-> IF Answers(Head(queue)) THEN "answer" ELSE "load",
             base |-> NoFile, saves |-> NoFile, returns |-> conv] }
    /\ queue' = Tail(queue)
    /\ UNCHANGED <<file, conv, shown, run, orphan, out, sent, serial>>

\* await q.answer()
Answer ==
    \E t \in tasks :
        /\ t.pc = "answer"
        /\ Runnable(t)
        /\ tasks' = (tasks \ {t}) \cup {[t EXCEPT !.pc = "load"]}
        /\ UNCHANGED <<file, conv, shown, run, orphan, out, queue, sent, serial>>

\* load_db() and the handler's work on the snapshot.
Load ==
    \E t \in tasks :
        /\ t.pc = "load"
        /\ Runnable(t)
        /\ LET res == Handler(t.update, file, conv)
           IN  tasks' = (tasks \ {t}) \cup
                  {[t EXCEPT !.pc = "save", !.base = file, !.saves = res.file,
                             !.returns = res.conv]}
        /\ UNCHANGED <<file, conv, shown, run, orphan, out, queue, sent, serial>>

\* save_db(db), in the branches that save: the snapshot replaces data.json.
Save ==
    \E t \in tasks :
        /\ t.pc = "save"
        /\ file' = IF t.saves # t.base THEN t.saves ELSE file
        /\ serial' = Handler(t.update, serial, conv).file
        /\ tasks' = (tasks \ {t}) \cup {[t EXCEPT !.pc = "reply"]}
        /\ UNCHANGED <<conv, shown, run, orphan, out, queue, sent>>

\* The message is sent and the handler returns the conversation state.
Reply ==
    \E t \in tasks :
        /\ t.pc = "reply"
        /\ Runnable(t)
        /\ conv' = t.returns
        /\ tasks' = tasks \ {t}
        /\ UNCHANGED <<file, shown, run, orphan, out, queue, sent, serial>>

\* The bot starts with no data.json, or with a batch of two being filled.
LoopFiles ==
    { NoFile,
      save_db([x \in {UID} |->
                  [sections |-> <<Section, Section>>,
                   editing |-> [idx |-> 0, field_i |-> 0],
                   manual |-> FALSE, target_count |-> MaxSections]]) }

LoopInit ==
    /\ file \in LoopFiles
    /\ conv = IF file = NoFile THEN END ELSE ASK_VALUE
    /\ shown = Len(Sections)
    /\ run = NoRun
    /\ orphan = FALSE
    /\ out = Untraced
    /\ queue = <<>>
    /\ tasks = {}
    /\ sent = 0
    /\ serial = file

LoopNext == Receive \/ Dispatch \/ Answer \/ Load \/ Save \/ Reply

LoopSpec == LoopInit /\ [][LoopNext]_vars

(***************************************************************************)
(* The wizard left to run: from a session with a valid editing pointer the *)
(* user only answers the field asked, with a preset by button or by text,  *)
(* switches to manual input, or sends something the handlers reject.       *)
(***************************************************************************)
\* The field being asked, or NoStep.
Step == current_step(load_db(file), UID)

\* What the handlers return for a valid value for the field asked, sent by
\* its button or (in manual mode) as text.
SubmitResults ==
    UNION { UNION { { on_pick(file, conv, UID, data) :
                        data \in {PickToken(step.key, v)} }
                    \cup (IF conv = ASK_VALUE /\ Manual
                          THEN {on_value(file, conv, UID, v)} ELSE {}) :
                    v \in { ButtonValue(step.key, i) : i \in Pressed[step.key] } } :
            step \in {Step} \ {NoStep} }

Submit ==
    \E res \in SubmitResults : Handle(res)

SwitchToManual ==
    /\ Step # NoStep
    /\ Handle(on_manual(file, conv, UID, Step.key))

\* A value that is not one: a text that is not a number, or not yes or no.
Rejected ==
    /\ Step # NoStep
    /\ LET bad == IF Step.key = "extra_section" THEN Maybe ELSE NonNumeric
       IN  \/ Handle(on_pick(file, conv, UID, PickToken(Step.key, bad)))
           \/ /\ conv = ASK_VALUE
              /\ Handle(on_value(file, conv, UID, bad))

\* The sessions the wizard is left in: a valid pointer into one or two
\* sections, all-default or filled before.
WizardSessions ==
    { st \in StepSessions :
        /\ st.editing # NULL
        /\ st.editing.idx < Len(st.sections)
        /\ \A r \in 1..Len(st.sections) : st.sections[r] \in {Section, Filled}
        /\ st.target_count = 0 }

WizardInit ==
    /\ \E st \in WizardSessions : file = save_db([x \in {UID} |-> st])
    /\ conv = ASK_VALUE
    /\ shown = MaxSections
    /\ run = NoRun
    /\ orphan = FALSE
    /\ out = NoOut
    /\ LoopIdle

WizardNext == Submit \/ SwitchToManual \/ Rejected

\* A valid value can be submitted exactly while a field is asked.
SubmitEnabled == Step # NoStep

\* The user keeps answering: weak fairness of Submit, WF_vars(Submit), with
\* the enabling condition of Submit written out as SubmitEnabled.
KeepsAnswering == []<>(~SubmitEnabled) \/ []<><<Submit>>_vars

WizardSpec == WizardInit /\ [][WizardNext]_vars /\ KeepsAnswering

\* SubmitEnabled is the enabling condition of Submit: an invariant of the
\* wizard's steps, which makes KeepsAnswering equal to WF_vars(Submit).
SubmitEnabledWhenAsked == (ENABLED <<Submit>>_vars) <=> SubmitEnabled

(***************************************************************************)
(* The claims.                                                             *)
(***************************************************************************)
\* The field the editing pointer asks for.
AskedKey == FIELDS[Editing.field_i + 1]

\* C1: in every persisted session state the editing pointer, when it is not
\* null, references an existing record (0 <= idx < number of sections) and a
\* field index in [0, 7).
C1_EditingPointsAtRecord ==
    Editing # NULL =>
        /\ 0 <= Editing.idx /\ Editing.idx < Len(Sections)
        /\ 0 <= Editing.field_i /\ Editing.field_i < Len(FIELDS)

\* A step in which the user submits a preset value for the field asked, by
\* its button or (in manual mode) as text.
SubmitsValue ==
    \/ \E i \in Pressed[AskedKey] :
          Handle(on_pick(file, conv, UID,
                         PickToken(AskedKey, ButtonValue(AskedKey, i))))
    \/ /\ conv = ASK_VALUE
       /\ Manual
       /\ \E i \in Pressed[AskedKey] :
             Handle(on_value(file, conv, UID, ButtonValue(AskedKey, i)))

\* C2: if the record under edit is deleted and the user then submits a value,
\* the session returns to idle and the record list is what it was right after
\* the deletion (no stale write into a record that shifted into the deleted
\* index), whether or not other records follow the deleted one.
C2_SubmitAfterDeleteWritesNothing ==
    [][(orphan /\ SubmitsValue) => (Sections' = Sections /\ conv' = END)]_vars

\* A step of a value-handling operation (on_pick, on_manual, on_value).
HandlesValue == OnPick \/ OnManual \/ OnValue

\* C3: when on_pick, on_manual or on_value finds that the editing pointer
\* refers to a record index that no longer exists, the persisted editing
\* pointer is null after the operation and the user is at the idle menu.
C3_MissingRecordClearsPointer ==
    [][(Editing # NULL /\ Editing.idx >= Len(Sections) /\ HandlesValue)
          => (Editing' = NULL /\ conv' = END)]_vars

\* C4: from an idle session, after the wizard is started for one record by
\* add or by edit:i, the editing pointer is non-null after fewer than 7
\* successful submissions and null after exactly 7 (no menu, reset, cancel,
\* delete or back in between), for every record index i.
C4_WizardTakesSevenSubmissions ==
    run.mode \in {"add", "edit"} =>
        /\ run.nsub < Len(FIELDS) => Editing # NULL
        /\ run.nsub = Len(FIELDS) => Editing = NULL

\* The malformed values of the claim: a negative number, a non-numeric text,
\* an unrecognised yes/no text.
Malformed(key) ==
    IF key = "extra_section" THEN {Maybe} ELSE {Negative, NonNumeric}

\* A step in which the user submits a malformed value for the field asked, as
\* a pick token or (in manual mode) as text.
SubmitsMalformed ==
    \/ \E v \in Malformed(AskedKey) :
          Handle(on_pick(file, conv, UID, PickToken(AskedKey, v)))
    \/ /\ conv = ASK_VALUE
       /\ Manual
       /\ \E v \in Malformed(AskedKey) : Handle(on_value(file, conv, UID, v))

\* C5: a malformed submission, as manual text or as a pick token, leaves the
\* editing pointer and every field of every record unchanged, and the same
\* field is asked again.
C5_MalformedChangesNothing ==
    [][(current_step(load_db(file), UID) # NoStep /\ SubmitsMalformed)
          => (Editing' = Editing /\ Sections' = Sections /\ conv' = ASK_VALUE)]_vars

\* C7: every stored integer field of every record is an integer >= 0 and
\* extra_section is a boolean, for values entered through either channel.
C7_StoredValuesInDomain ==
    \A i \in 1..Len(Sections) :
        /\ \A k \in IntKeys : Sections[i][k] \in Nat
        /\ Sections[i].extra_section \in BOOLEAN

\* The value that option i of the field's keyboard stands for.
Entered(key, i) == IF key = "extra_section" THEN i = 1 ELSE OPTIONS[key][i]

\* What the handlers return when the user submits option i of the field
\* asked: by its button, and (in manual mode) as text.
SubmissionResults(i) ==
    {on_pick(file, conv, UID, PickToken(AskedKey, ButtonValue(AskedKey, i)))}
        \cup (IF conv = ASK_VALUE /\ Manual
              THEN {on_value(file, conv, UID, ButtonValue(AskedKey, i))}
              ELSE {})

\* What a successful submission of option i changes.
SubmissionFrame(i, res) ==
    LET idx == Editing.idx
        field_i == Editing.field_i
        post == SessionOf(res.file)
    IN  /\ Len(post.sections) = Len(Sections)
        /\ \A r \in 1..Len(Sections) : \A k \in FieldKeys :
              post.sections[r][k] = IF r = idx + 1 /\ k = AskedKey
                                    THEN Entered(AskedKey, i) ELSE Sections[r][k]
        /\ IF field_i + 1 < Len(FIELDS)
           THEN post.editing = [idx |-> idx, field_i |-> field_i + 1]
           ELSE post.editing # NULL =>
                   post.editing = [idx |-> idx + 1, field_i |-> 0]

\* C6: a successful submission writes the parsed value into the field
\* FIELDS[field_i] of the record at the editing pointer's index and nowhere
\* else, and advances the field index by one (or moves off the record after
\* its last field); the other fields, the other records and the number of
\* records are unchanged.
C6_SubmissionWritesOneField ==
    current_step(load_db(file), UID) # NoStep =>
        \A i \in Pressed[AskedKey] :
            \A res \in SubmissionResults(i) : SubmissionFrame(i, res)

\* C6 witness: in a batch of two, the last field of record 0 and the first of
\* record 1 have been submitted.
C6_Witness ==
    /\ run = [mode |-> "count", nsub |-> Len(FIELDS) + 1]
    /\ Editing = [idx |-> 1, field_i |-> 1]
    /\ Sections[1].extra_section = TRUE
    /\ Sections[2].height_mm = OPTIONS.height_mm[1]
    /\ Sections[2].width_mm = Section.width_mm

\* C8: after a count n is chosen the session has n all-default records and
\* the pointer at (0, 0); with valid submissions only, the pointer visits the
\* records in order, seven submissions each, and the session is idle after
\* exactly 7*n submissions.
C8_BatchVisitsRecordsInOrder ==
    run.mode = "count" =>
        LET n == TargetCount
            done == Len(FIELDS) * n
        IN  /\ n \in 1..MaxSections
            /\ Len(Sections) = n
            /\ run.nsub = 0 => \A r \in 1..n : Sections[r] = Section
            /\ run.nsub <= done
            /\ run.nsub < done =>
                  Editing = [idx |-> run.nsub \div Len(FIELDS),
                             field_i |-> run.nsub % Len(FIELDS)]
            /\ run.nsub = done => Editing = NULL /\ conv = END

\* C8 witness: a batch of two has been completed.
C8_Witness ==
    /\ run = [mode |-> "count", nsub |-> Len(FIELDS) + Len(FIELDS)]
    /\ TargetCount = MaxSections
    /\ Editing = NULL
    /\ \A r \in 1..MaxSections : Sections[r].levels_count = OPTIONS.levels_count[4]

\* C9: step back sets the field index to max(field_i - 1, 0) and leaves the
\* pointer's record index and every record unchanged.
C9_BackDecrementsFlooredAtZero ==
    Editing # NULL =>
        LET post == SessionOf(on_back_field(file, conv, UID).file)
        IN  /\ post.editing = [idx |-> Editing.idx,
                               field_i |-> Max(Editing.field_i - 1, 0)]
            /\ post.sections = Sections

\* C9 witness: after height and width were written the user stepped back to
\* the width field, and both values are still stored.
C9_Witness ==
    /\ run.mode = "back"
    /\ Editing = [idx |-> 0, field_i |-> 1]
    /\ Sections[1].height_mm = OPTIONS.height_mm[1]
    /\ Sections[1].width_mm = OPTIONS.width_mm[2]

\* C10: cancel from any state sets the editing pointer to null and the manual
\* flag to false and leaves the list of records unchanged.
C10_CancelKeepsRecords ==
    LET post == SessionOf(on_menu_click(file, conv, UID,
                                        Simple("cancel_edit")).file)
    IN  post.editing = NULL /\ post.manual = FALSE /\ post.sections = Sections

\* C10 witness: cancelled with a partially filled record and an all-default
\* record in the list.
C10_Witness ==
    /\ run.mode = "cancel"
    /\ Editing = NULL
    /\ ~Manual
    /\ Len(Sections) = MaxSections
    /\ Sections[1].height_mm = OPTIONS.height_mm[1]
    /\ Sections[1].width_mm = Section.width_mm
    /\ Sections[2] = Section

\* The user's session before the update whose outcome is recorded.
Before == SessionOf(out.file)

\* C11: on_manual changes only the manual flag: the editing pointer and the
\* records are unchanged, when the switch is accepted (the flag is then set)
\* and when it is rejected because the token's field key is not the key of
\* the field asked (the flag then stays).
C11_ManualChangesOnlyFlag ==
    \A key \in FieldKeys :
        LET step == current_step(load_db(file), UID)
            post == SessionOf(on_manual(file, conv, UID, key).file)
        IN  /\ post.editing = Editing
            /\ post.sections = Sections
            /\ post.target_count = TargetCount
            /\ post.manual = IF step # NoStep /\ key = step.key THEN TRUE
                             ELSE Manual

\* C11 witness: manual input was accepted at the last field of the second
\* section, and the pointer did not move.
C11_Witness ==
    /\ out.branch = "manual"
    /\ Manual /\ ~Before.manual
    /\ Editing = [idx |-> 1, field_i |-> Len(FIELDS) - 1]
    /\ Before.editing = Editing
    /\ Sections = <<Filled, Section>>

\* C12: an update is handled to completion before the next one is taken (at
\* most one handler is in flight); between a handler's load and its save
\* data.json is not written by another handler; and data.json is what
\* handling the updates one after another gives (no lost update).
C12_UpdatesHandledOneByOne ==
    /\ Cardinality(tasks) <= 1
    /\ \A t \in tasks : t.pc = "save" => t.base = file
    /\ file = serial

\* C12 witness: add and the presets of height and width have all been
\* handled, and all three are stored.
C12_Witness ==
    /\ sent = MaxUpdates /\ queue = <<>> /\ tasks = {}
    /\ Len(Sections) = 1
    /\ Sections[1].height_mm = OPTIONS.height_mm[2]
    /\ Sections[1].width_mm = OPTIONS.width_mm[2]
    /\ Editing = [idx |-> 0, field_i |-> 2]

\* What the apply button gives in the current state.
Applied == on_menu_click(file, conv, UID, Simple("apply"))

\* C13: with no records apply reports that there are no sections, with the
\* main menu to add one, presents no total and leaves data.json as it is;
\* with at least one record it presents a total.
C13_ApplyWithoutSectionsIsAnError ==
    IF Sections = <<>>
    THEN /\ Applied.reply = Message(Plain("no_sections"), main_menu)
         /\ Applied.reply.text.msg # "total"
         /\ Applied.file = file
    ELSE /\ Applied.reply.text.msg = "total"
         /\ Applied.reply.text.of = Len(Sections)
         /\ Applied.reply.kb = finish_kb

\* C13 witness: apply was pressed in a session without sections, while a
\* pointer left by a deletion was still stored.
C13_Witness ==
    /\ out.branch = "apply"
    /\ out.reply.text.msg = "no_sections"
    /\ Sections = <<>>
    /\ Editing # NULL
    /\ file = out.file

\* The footprint of a section in square millimetres times its levels.
FootprintOf(s) ==
    s.width_mm * s.depth_mm * (IF s.levels_count > 0 THEN s.levels_count ELSE 0)

\* The sum of the footprints of the first n sections.
RECURSIVE FootprintSum(_, _)
FootprintSum(sections, n) ==
    IF n = 0 THEN 0
    ELSE FootprintSum(sections, n - 1) + FootprintOf(sections[n])

\* The sections with every field that is not a dimension of the footprint
\* set to its default.
DimensionsOnly(sections) ==
    [r \in 1..Len(sections) |->
        [Section EXCEPT !.width_mm = sections[r].width_mm,
                        !.depth_mm = sections[r].depth_mm,
                        !.levels_count = sections[r].levels_count]]

\* C14: calc_price is the sum over the records of (width_mm / 1000) *
\* (depth_mm / 1000) * max(levels_count, 0) times the unit price 1000, that
\* is price * 1000 = sum of width_mm * depth_mm * max(levels_count, 0); it
\* does not depend on height, the load fields or extra_section; one record of
\* width 1000, depth 400 and 5 levels costs 2000; and the total that apply
\* presents is this price.
C14_PriceIsSumOfFootprints ==
    /\ calc_price_x1000(Sections) = FootprintSum(Sections, Len(Sections))
    /\ calc_price_x1000(Sections) = calc_price_x1000(DimensionsOnly(Sections))
    /\ calc_price_x1000(<<[Section EXCEPT !.width_mm = 1000, !.depth_mm = 400,
                                          !.levels_count = 5]>>) = 2000 * 1000
    /\ Sections # <<>> =>
          Applied.reply.text.price = FootprintSum(Sections, Len(Sections))

\* C14 witness: apply presented the total 2000 for one section of width
\* 1000, depth 400 and 5 levels.
C14_Witness ==
    /\ out.branch = "apply"
    /\ out.reply.text.msg = "total"
    /\ out.reply.text.price = 2000 * 1000
    /\ Sections = <<Filled>>

\* The fields the price grows with, and the amounts they are raised by.
Dimensions == {"width_mm", "depth_mm", "levels_count"}
Raises == {1, 100}

NonNegative(sections) ==
    \A r \in 1..Len(sections) : \A k \in IntKeys : sections[r][k] >= 0

\* C15: the price of an empty list is 0, and for records with non-negative
\* fields the price does not decrease when the level count, the width or the
\* depth of one record is raised and everything else is kept.
C15_PriceIsMonotone ==
    /\ calc_price_x1000(<<>>) = 0
    /\ NonNegative(Sections) =>
          \A r \in 1..Len(Sections) : \A k \in Dimensions : \A d \in Raises :
              calc_price_x1000([Sections EXCEPT ![r][k] = @ + d])
                  >= calc_price_x1000(Sections)

\* C15 witness: apply priced two sections with non-negative fields, the
\* second of which adds to the total.
C15_Witness ==
    /\ out.branch = "apply"
    /\ Len(Sections) = MaxSections
    /\ NonNegative(Sections)
    /\ out.reply.text.price > calc_price_x1000(<<Sections[1]>>)
    /\ calc_price_x1000(<<Sections[1]>>) > 0

\* data.json with the user's pointer, flag and count replaced.
WithPointer(e, m, t) ==
    LET db == get_user_state(load_db(file), UID)
    IN  save_db([db EXCEPT ![UID] = [@ EXCEPT !.editing = e, !.manual = m,
                                              !.target_count = t]])

\* C16: apply saves nothing, so records, editing pointer, manual flag and
\* target count stay; applying again gives the identical message; and the
\* message is the same whatever the pointer, the flag and the count are.
C16_ApplyIsPure ==
    /\ Applied.file = file
    /\ on_menu_click(Applied.file, Applied.conv, UID, Simple("apply")).reply
          = Applied.reply
    /\ \A e \in StepPointers : \A m \in BOOLEAN : \A t \in {0, MaxSections} :
          on_menu_click(WithPointer(e, m, t), conv, UID, Simple("apply")).reply
              = Applied.reply
    /\ out.branch = "apply" => (file = out.file /\ Applied.reply = out.reply)

\* C16 witness: apply was pressed in the middle of a manual entry, presented
\* a total, and the pointer and the flag are still stored.
C16_Witness ==
    /\ out.branch = "apply"
    /\ out.reply.text.msg = "total"
    /\ out.conv = ASK_VALUE
    /\ Editing = [idx |-> 0, field_i |-> 1]
    /\ Manual
    /\ TargetCount = MaxSections
    /\ Session = Before

\* C17: the /reset command and the reset_all button leave the user's session
\* with no records, a null editing pointer, the manual flag false and the
\* target count 0, from any state.
C17_ResetEmptiesSession ==
    /\ SessionOf(reset_cmd(file, conv, UID).file) = DefaultState
    /\ SessionOf(on_menu_click(file, conv, UID, Simple("reset_all")).file)
          = DefaultState
    /\ out.branch = "reset" => Session = DefaultState

\* C17 witness: a reset in the middle of a manual entry of a batch of two.
C17_Witness ==
    /\ out.branch = "reset"
    /\ Before.sections = <<Filled, Section>>
    /\ Before.editing = [idx |-> 1, field_i |-> 0]
    /\ Before.manual
    /\ Before.target_count = MaxSections
    /\ Session = DefaultState

\* C18: an update handled for the user, with the rewrite of data.json it
\* causes, leaves the entry of every other user as it was.
C18_OtherSessionsUntouched ==
    (out # NoOut /\ OTHER_UID \in DOMAIN load_db(out.file)) =>
        /\ OTHER_UID \in DOMAIN load_db(file)
        /\ load_db(file)[OTHER_UID] = load_db(out.file)[OTHER_UID]

\* C18 witness: the user's first section was added to a data.json that held
\* the other user's entry only, and was rewritten with both.
C18_Witness ==
    /\ out.branch = "add"
    /\ out.file = OtherOnly
    /\ DOMAIN load_db(file) = {UID, OTHER_UID}
    /\ Sections = <<Section>>
    /\ load_db(file)[OTHER_UID] = OtherSession

\* C19: a text received while the editing pointer is valid and the manual
\* flag is false is not taken as a value: nothing is saved, so no field is
\* written and the pointer stays, and the same field is asked again with its
\* preset buttons.
C19_TextIgnoredInPresetMode ==
    (current_step(load_db(file), UID) # NoStep /\ ~Manual) =>
        \A text \in TypedFor(AskedKey) :
            LET res == on_value(file, conv, UID, text)
            IN  /\ res.file = file
                /\ res.conv = ASK_VALUE
                /\ res.reply.text.key = AskedKey
                /\ res.reply.kb = input_kb(AskedKey)

\* C19 witness: a text was sent while the width of the first section was
\* asked with buttons, and the session is as it was.
C19_Witness ==
    /\ out.branch = "not_manual"
    /\ out.reply.kb = input_kb("width_mm")
    /\ Editing = [idx |-> 0, field_i |-> 1]
    /\ ~Manual
    /\ Sections = <<Section>>
    /\ file = out.file

\* The values a pick token of the field may carry: its presets, and a
\* negative number.
TokenValues(key) ==
    { ButtonValue(key, i) : i \in 1..Len(OPTIONS[key]) } \cup {Negative}

\* C20: a pick token whose field key is not the key of the field at the
\* editing pointer is rejected: nothing is saved, so no field is written and
\* the pointer and the manual flag stay, and the field is asked again.
C20_PickOfOtherFieldRejected ==
    current_step(load_db(file), UID) # NoStep =>
        \A key \in FieldKeys \ {AskedKey} : \A value \in TokenValues(key) :
            LET res == on_pick(file, conv, UID, PickToken(key, value))
            IN  /\ res.file = file
                /\ res.conv = ASK_VALUE
                /\ res.reply.text.key = AskedKey

\* C20 witness: with the first field of a filled section asked again in
\* manual mode, a button of another field was pressed, and the session is as
\* it was.
C20_Witness ==
    /\ out.branch = "mismatch"
    /\ out.reply.kb = input_kb(FIELDS[1])
    /\ Editing = [idx |-> 0, field_i |-> 0]
    /\ Manual
    /\ Sections = <<Filled>>
    /\ file = out.file

\* C21: whenever the manual flag is true the editing pointer is not null, and
\* right after a successful submission, by pick or by text, the manual flag
\* is false: manual mode lasts for one field at most.
C21_ManualModeLastsOneField ==
    /\ Manual => Editing # NULL
    /\ current_step(load_db(file), UID) # NoStep =>
          \A i \in Pressed[AskedKey] : \A res \in SubmissionResults(i) :
              ~SessionOf(res.file).manual
    /\ out.branch = "written" => ~Manual

\* C21 witness: the width of the first section was submitted in manual mode,
\* the depth is asked next, and the manual flag is off.
C21_Witness ==
    /\ out.branch = "written"
    /\ Before.manual
    /\ Before.editing = [idx |-> 0, field_i |-> 1]
    /\ Editing = [idx |-> 0, field_i |-> 2]
    /\ ~Manual

\* The submissions the wizard still needs: 7 * (number of records - idx) -
\* field_i, and none when the pointer is null.
Remaining ==
    IF Editing = NULL THEN 0
    ELSE Len(FIELDS) * (Len(Sections) - Editing.idx) - Editing.field_i

\* C22: from a valid editing pointer (idx, field_i), with valid values
\* submitted again and again and no other event, every successful submission
\* lowers 7 * (number of records - idx) - field_i by one, nothing else
\* changes it, and the session eventually becomes idle: after exactly that
\* many successful submissions.
C22_WizardTerminates ==
    /\ [][IF Submit THEN Remaining' = Remaining - 1
          ELSE Remaining' = Remaining]_vars
    /\ [](Editing = NULL <=> Remaining = 0)
    /\ <>(Editing = NULL)

\* C22 witness: the last field of the second section was submitted and the
\* session is idle, both sections filled.
C22_Witness ==
    /\ out.branch = "written"
    /\ Before.editing = [idx |-> 1, field_i |-> Len(FIELDS) - 1]
    /\ Editing = NULL
    /\ conv = END
    /\ Len(Sections) = MaxSections
    /\ Sections[1] = Filled

====
